---- MODULE Spec2Model ----
(***************************************************************************)
(* Model of download.py: main() submits one download_all task per dataset  *)
(* of the manifest to a ThreadPoolExecutor; every task body runs inside a  *)
(* shared Semaphore(num_thread) and performs the fixed sequence            *)
(* download_file / extract_and_remove for the base archive, the model      *)
(* archive and (optionally) the image archives.                            *)
(***************************************************************************)
EXTENDS Integers, Sequences, FiniteSets, TLC

\* ------------------------------------------------------------------ bounds
NumDatasets == 2      \* records in bop_all.json
NumImages == 1        \* image archives per dataset
NumEntries == 2       \* members per zip archive
MaxNumThread == 2     \* largest --num_thread tried
MaxWorkers == 2       \* largest ThreadPoolExecutor max_workers tried
MaxRuns == 2          \* times the tool is run on the same save_dir

VARIABLES
    args,       \* parsed command line: num_thread, whitelist, remove_zip, download_images, extract_images
    max_workers,\* size of the ThreadPoolExecutor's pool
    bad,        \* the remote archives' defect: <<position, kind>> of the one bad member (position 0: none)
    run,        \* which run of the tool this is
    mainpc,     \* position of main()
    bop_all,    \* the manifest after the whitelist filter (indices into Manifest)
    futures,    \* the futures list of main(): submitted datasets, in order
    pc,         \* pc[j]: position of the download_all task of dataset j
    sem,        \* free permits of the semaphore
    exc,        \* exc[j]: the exception stored in the future of task j ("none" if none)
    fs,         \* the files under save_dir: path -> content
    dirs,       \* the directories that exist
    printed,    \* lines printed to stdout
    requested,  \* URLs for which a network request was made in this run
    trace,      \* trace[j]: the download_file / extract_and_remove calls task j has made
    failed,     \* failed[j]: how a download_file call of task j failed ("none" if none did)
    starts,     \* starts[j]: how often the body of task j was started in this run
    fs1,        \* the files and directories as they were when the first run ended
    clean1,     \* TRUE iff every task of the first run went through without any failure
    status,     \* exit status of the process (-1 while main() has not returned)
    touched     \* touched[j]: the files task j has created, written or deleted in this run

vars == <<args, max_workers, bad, run, mainpc, bop_all, futures, pc, sem, exc, fs,
          dirs, printed, requested, trace, failed, starts, fs1, clean1, status, touched>>

Datasets == 1..NumDatasets

\* ---------------------------------------------------------------- manifest
\* One record of bop_all.json, with the fields download_all reads.
Descriptor(i) ==
    LET n == "ds" \o ToString(i)
    IN  [dataset_name |-> n,
         base |-> n \o "_base.zip",
         base_url |-> <<"https:", "", "host", n \o "_base.zip">>,
         model |-> n \o "_models.zip",
         model_url |-> <<"https:", "", "host", n \o "_models.zip">>,
         images |-> [k \in 1..NumImages |-> n \o "_img" \o ToString(k) \o ".zip"],
         image_urls |-> [k \in 1..NumImages |->
                           <<"https:", "", "host", n \o "_img" \o ToString(k) \o ".zip">>]]

Manifest == [i \in Datasets |-> Descriptor(i)]

\* Names a whitelist may hold: the manifest's and one that is in no record.
Names == {Manifest[i].dataset_name : i \in Datasets} \cup {"other"}

save_dir == <<"save_dir">>

\* os.path.join(dir, name)
Join(dir, name) == Append(dir, name)

\* url.split("/")[-1]
Filename(url) == url[Len(url)]

ExistsNever(path, files, ds) == FALSE

\* os.path.exists(path)
Exists(path, files, ds) == path \in DOMAIN files \/ path \in ds

\* the directories os.makedirs(dir, exist_ok=True) leaves in existence
MakeDirs(dir, ds) == ds \cup {SubSeq(dir, 1, n) : n \in 1..Len(dir)}

\* files with path p (over)written with content c
Put(files, p, c) == [q \in DOMAIN files \cup {p} |-> IF q = p THEN c ELSE files[q]]

\* files without path p
Del(files, p) == [q \in DOMAIN files \ {p} |-> files[q]]

\* ------------------------------------------------------- the remote archives
FetchOutcomes == {"ok", "HTTPError", "URLError", "ContentTooShortError"}

Defects == {<<0, "none">>} \cup ((1..NumEntries) \X {"BadZipFile", "OtherError"})

\* The members of the archive served under this file name: the base archive of
\* dataset n holds n/..., a model archive models/..., an image archive train/...
Top(filename) ==
    IF \E i \in Datasets : Manifest[i].base = filename
    THEN (CHOOSE i \in Datasets : Manifest[i].base = filename)
    ELSE 0

TopDir(filename) ==
    IF Top(filename) # 0 THEN Manifest[Top(filename)].dataset_name
    ELSE IF \E i \in Datasets : Manifest[i].model = filename THEN "models"
    ELSE "train"

\* zf.infolist(): member k is <<relative path, what zf.extract does with it>>
Infolist(filename, defect) ==
    [k \in 1..NumEntries |->
        [name |-> <<TopDir(filename), "f" \o ToString(k)>>,
         kind |-> IF defect[1] = k THEN defect[2] ELSE "ok"]]

\* ------------------------------------------------------------ download_file
download_file_always(url, dir, outcome, files, ds) ==
    LET path == Join(dir, Filename(url))
    IN  [fs |-> CASE outcome = "ok" -> Put(files, path, <<"zip", Filename(url)>>)
                  [] outcome = "ContentTooShortError" ->
                         Put(files, path, <<"partial", Filename(url)>>)
                  [] OTHER -> files,
         dirs |-> MakeDirs(dir, ds),
         net |-> TRUE,
         raise |-> IF outcome = "ok" THEN "none" ELSE outcome]

\* download_file(url, save_dir) in the file system (files, ds), when the server
\* answers with `outcome`. net: a request was made; raise: the exception leaving
\* the call. urlretrieve opens the URL before it opens the destination file, so
\* an HTTPError or URLError leaves no file; a transfer cut short leaves what
\* was written.
download_file(url, dir, outcome, files, ds) ==
    LET filename == Filename(url)
        path == Join(dir, filename)
    IN  IF Exists(path, files, ds)
        THEN [fs |-> files, dirs |-> ds, net |-> FALSE, raise |-> "none"]
        ELSE [fs |-> CASE outcome = "ok" -> Put(files, path, <<"zip", filename>>)
                       [] outcome = "ContentTooShortError" ->
                              Put(files, path, <<"partial", filename>>)
                       [] OTHER -> files,
              dirs |-> MakeDirs(dir, ds),
              net |-> TRUE,
              raise |-> IF outcome = "ok" THEN "none" ELSE outcome]

\* ------------------------------------------------------ extract_and_remove
\* The loop over zf.infolist() from member k on. zf.extract creates the
\* member's directories, then opens the member: zipfile.error (BadZipFile) is
\* caught and the member skipped, any other exception leaves the loop.
RECURSIVE ExtractFrom(_, _, _, _, _, _)
ExtractFrom(members, k, archive, dst, files, ds) ==
    IF k > Len(members)
    THEN [fs |-> files, dirs |-> ds, raise |-> "none", skipped |-> 0]
    ELSE LET m == members[k]
             target == dst \o m.name
             ds2 == MakeDirs(SubSeq(target, 1, Len(target) - 1), ds)
         IN  CASE m.kind = "ok" ->
                    ExtractFrom(members, k + 1, archive, dst,
                                Put(files, target, <<"member", archive, ToString(k)>>), ds2)
               [] m.kind = "BadZipFile" ->
                    LET r == ExtractFrom(members, k + 1, archive, dst, files, ds2)
                    IN  [r EXCEPT !.skipped = @ + 1]
               [] OTHER ->
                    [fs |-> files, dirs |-> ds2, raise |-> m.kind, skipped |-> 0]

RemoveZipNever(a, path, files) == files

\* os.remove(filename) when args.remove_zip
RemoveZip(a, path, files) == IF a.remove_zip THEN Del(files, path) ELSE files

\* extract_and_remove(filename, dst, args): ZipFile(filename) is opened outside
\* the try, so a missing file or a file that is no zip raises out of the call.
extract_and_remove(path, dst, a, defect, files, ds) ==
    IF path \notin DOMAIN files
    THEN [fs |-> files, dirs |-> ds, raise |-> "FileNotFoundError", skipped |-> 0]
    ELSE IF files[path][1] # "zip"
    THEN [fs |-> files, dirs |-> ds, raise |-> "BadZipFile", skipped |-> 0]
    ELSE LET archive == files[path][2]
             r == ExtractFrom(Infolist(archive, defect), 1, archive, dst, files, ds)
         IN  IF r.raise # "none" THEN r
             ELSE [r EXCEPT !.fs = RemoveZip(a, path, r.fs)]

\* ------------------------------------------------------------------- state
NoFiles == [q \in {} |-> <<>>]

\* args.whitelist: the empty set stands for None (no --whitelist given; nargs="+"
\* never yields an empty list, and `if args.whitelist:` treats both alike)
Whitelists == {{}} \cup {{n} : n \in Names} \cup {Names}

Flags == [remove_zip : BOOLEAN, download_images : BOOLEAN, extract_images : BOOLEAN]

\* the command line with these pool limit, whitelist and flags
Args(n, w, f) ==
    [num_thread |-> n, whitelist |-> w, remove_zip |-> f.remove_zip,
     download_images |-> f.download_images, extract_images |-> f.extract_images]

At(label, k) == [at |-> label, i |-> k]

NoTasks == [j \in Datasets |-> At("none", 0)]

Nothing == [j \in Datasets |-> "none"]

\* The state main() starts from, on an empty save_dir, for a command line of A,
\* a pool of one of the sizes W and remote archives with one of the defects D.
Begin(A, W, D) ==
    /\ args \in A
    /\ max_workers \in W
    /\ bad \in D
    /\ run = 1
    /\ fs = NoFiles
    /\ dirs = {}
    /\ fs1 = <<NoFiles, {}>>
    /\ clean1 = FALSE
    /\ mainpc = "filter"
    /\ bop_all = <<>>
    /\ futures = <<>>
    /\ pc = NoTasks
    /\ sem = 0
    /\ exc = Nothing
    /\ printed = {}
    /\ requested = {}
    /\ trace = [j \in Datasets |-> <<>>]
    /\ failed = Nothing
    /\ starts = [j \in Datasets |-> 0]
    /\ status = -1
    /\ touched = [j \in Datasets |-> {}]

\* Every combination of the flags and every archive defect, --num_thread 1 and
\* the largest; no whitelist and the largest pool.
Init ==
    Begin({Args(n, {}, f) : n \in {1, MaxNumThread}, f \in Flags}, {MaxWorkers}, Defects)

\* Every --num_thread, pool size and whitelist; images downloaded and
\* extracted, archives kept and sound.
InitPool ==
    Begin({Args(n, w, [remove_zip |-> FALSE, download_images |-> TRUE,
                       extract_images |-> TRUE]) :
              n \in 1..MaxNumThread, w \in Whitelists},
          1..MaxWorkers, {<<0, "none">>})

\* One dataset on the whitelist, every combination of the flags and every
\* archive defect: the start of a sequence of runs on the same save_dir.
InitTwice ==
    Begin({Args(MaxNumThread, {Manifest[i].dataset_name}, f) :
              i \in Datasets, f \in Flags},
          {MaxWorkers}, Defects)

\* -------------------------------------------------------------------- main
FilteredAll(i, whitelist) == [k \in 1..NumDatasets |-> k]

\* [bop for bop in bop_all if bop["dataset_name"] in args.whitelist]
RECURSIVE Filtered(_, _)
Filtered(i, whitelist) ==
    IF i > NumDatasets THEN <<>>
    ELSE IF whitelist = {} \/ Manifest[i].dataset_name \in whitelist
    THEN <<i>> \o Filtered(i + 1, whitelist)
    ELSE Filtered(i + 1, whitelist)

\* parse_args, json.load, the whitelist filter, Semaphore(args.num_thread)
Filter ==
    /\ mainpc = "filter"
    /\ bop_all' = Filtered(1, args.whitelist)
    /\ sem' = args.num_thread
    /\ mainpc' = "submit"
    /\ UNCHANGED <<args, max_workers, bad, run, futures, pc, exc, fs, dirs, printed,
                   requested, trace, failed, starts, fs1, clean1, status, touched>>

\* executor.submit(download_all, bop, args, sem); futures.append(future)
Submit ==
    /\ mainpc = "submit"
    /\ Len(futures) < Len(bop_all)
    /\ LET j == bop_all[Len(futures) + 1]
       IN  /\ futures' = Append(futures, j)
           /\ pc' = [pc EXCEPT ![j] = At("queued", 0)]
    /\ UNCHANGED <<args, max_workers, bad, run, mainpc, bop_all, sem, exc, fs, dirs,
                   printed, requested, trace, failed, starts, fs1, clean1, status, touched>>

Terminal(j) == pc[j].at = "done"

AnyDone == futures = <<>> \/ \E k \in 1..Len(futures) : Terminal(futures[k])

\* what wait(futures) and the executor's shutdown(wait=True) block on
AllDone == \A k \in 1..Len(futures) : Terminal(futures[k])

\* the for loop is over and wait(futures) returns
Wait ==
    /\ mainpc = "submit"
    /\ Len(futures) = Len(bop_all)
    /\ AllDone
    /\ mainpc' = "shutdown"
    /\ UNCHANGED <<args, max_workers, bad, run, bop_all, futures, pc, sem, exc, fs, dirs,
                   printed, requested, trace, failed, starts, fs1, clean1, status, touched>>

ExitStatusOfResults(fut, e) ==
    IF \E k \in 1..Len(fut) : e[fut[k]] # "none" THEN 1 ELSE 0

\* The exit status when main() returns with the futures fut holding the
\* exceptions e: main() never calls future.result() and wait() raises nothing,
\* so no exception of a task reaches main() and the interpreter exits with 0.
ExitStatus(fut, e) == 0

\* leaving `with ThreadPoolExecutor() as executor`, then main() returns
Shutdown ==
    /\ mainpc = "shutdown"
    /\ AllDone
    /\ mainpc' = "done"
    /\ status' = ExitStatus(futures, exc)
    /\ UNCHANGED <<args, max_workers, bad, run, bop_all, futures, pc, sem, exc, fs, dirs,
                   printed, requested, trace, failed, starts, fs1, clean1, touched>>

\* ------------------------------------------------------------- download_all
Running == {j \in Datasets : pc[j].at \notin {"none", "queued", "done"}}

InBody == {j \in Datasets : pc[j].at \notin {"none", "queued", "acquire", "done"}}

\* the work queue of the executor is first in, first out
FirstQueued(j) ==
    \E k \in 1..Len(futures) :
        /\ futures[k] = j
        /\ pc[j].at = "queued"
        /\ \A l \in 1..(k - 1) : pc[futures[l]].at # "queued"

\* a free worker thread of the pool takes the task and calls download_all
Start(j) ==
    /\ FirstQueued(j)
    /\ Cardinality(Running) < max_workers
    /\ pc' = [pc EXCEPT ![j] = At("acquire", 0)]
    /\ UNCHANGED <<args, max_workers, bad, run, mainpc, bop_all, futures, sem, exc, fs,
                   dirs, printed, requested, trace, failed, starts, fs1, clean1, status, touched>>

CanAcquireAlways(permits) == TRUE

\* Semaphore.acquire blocks while no permit is free
CanAcquire(permits) == permits > 0

\* `with sem:` entered
Acquire(j) ==
    /\ pc[j].at = "acquire"
    /\ CanAcquire(sem)
    /\ sem' = sem - 1
    /\ pc' = [pc EXCEPT ![j] = At("base_dl", 0)]
    /\ starts' = [starts EXCEPT ![j] = @ + 1]
    /\ UNCHANGED <<args, max_workers, bad, run, mainpc, bop_all, futures, exc, fs, dirs,
                   printed, requested, trace, failed, fs1, clean1, status, touched>>

CaughtNothing(e) == FALSE

\* which exceptions `except error.HTTPError` catches
Caught(e) == e = "HTTPError"

\* print(f"Download Failed: {bop['base']}")
FailureLine(bop) == "Download Failed: " \o bop.base

ContinueLeak(j, e, next) ==
    IF e = "none" /\ next.at # "end"
    THEN /\ pc' = [pc EXCEPT ![j] = next]
         /\ UNCHANGED <<sem, exc, printed>>
    ELSE /\ pc' = [pc EXCEPT ![j] = At("done", 0)]
         /\ sem' = IF e = "none" \/ e = "HTTPError" THEN sem + 1 ELSE sem
         /\ exc' = [exc EXCEPT ![j] = IF e = "none" \/ e = "HTTPError" THEN "none" ELSE e]
         /\ printed' = IF e = "HTTPError"
                       THEN printed \cup {"Download Failed: " \o Manifest[j].base}
                       ELSE printed

\* How task j goes on after a call that left exception e ("none": it returned),
\* to position `next` ("end": the body is over). Leaving the body, by return or
\* by exception, releases the semaphore; an exception that is not caught is
\* stored in the task's future.
Continue(j, e, next) ==
    IF e = "none" /\ next.at # "end"
    THEN /\ pc' = [pc EXCEPT ![j] = next]
         /\ UNCHANGED <<sem, exc, printed>>
    ELSE /\ pc' = [pc EXCEPT ![j] = At("done", 0)]
         /\ sem' = sem + 1
         /\ exc' = [exc EXCEPT ![j] = IF e = "none" \/ Caught(e) THEN "none" ELSE e]
         /\ printed' = IF e # "none" /\ Caught(e)
                       THEN printed \cup {FailureLine(Manifest[j])}
                       ELSE printed

\* The paths a call created, wrote or deleted when it turned the files `files`
\* into files2: the files that are new, gone or of other content. Directories
\* are left out: none is ever removed, so each is created by one call only.
Changed(files, files2) ==
    {p \in DOMAIN files \cup DOMAIN files2 :
        \/ p \notin DOMAIN files
        \/ p \notin DOMAIN files2
        \/ files[p] # files2[p]}

\* task j calls download_file(url, dir), then goes on to `next`
Fetch(j, url, dir, next) ==
    \E outcome \in FetchOutcomes :
        \E r \in {download_file(url, dir, outcome, fs, dirs)} :
            /\ fs' = r.fs
            /\ dirs' = r.dirs
            /\ requested' = IF r.net THEN requested \cup {url} ELSE requested
            /\ trace' = [trace EXCEPT ![j] = Append(@, <<"download_file", Filename(url)>>)]
            /\ failed' = [failed EXCEPT ![j] = IF r.raise = "none" THEN @ ELSE r.raise]
            /\ touched' = [touched EXCEPT ![j] = @ \cup Changed(fs, r.fs)]
            /\ Continue(j, r.raise, next)
            /\ UNCHANGED <<args, max_workers, bad, run, mainpc, bop_all, futures, starts,
                           fs1, clean1, status>>

\* task j calls extract_and_remove(filename, dst, args), then goes on to `next`
Extract(j, name, path, dst, next) ==
    \E r \in {extract_and_remove(path, dst, args, bad, fs, dirs)} :
        /\ fs' = r.fs
        /\ dirs' = r.dirs
        /\ trace' = [trace EXCEPT ![j] = Append(@, <<"extract_and_remove", name>>)]
        /\ touched' = [touched EXCEPT ![j] = @ \cup Changed(fs, r.fs)]
        /\ Continue(j, r.raise, next)
        /\ UNCHANGED <<args, max_workers, bad, run, mainpc, bop_all, futures, requested,
                       failed, starts, fs1, clean1, status>>

\* os.path.join(args.save_dir, bop["dataset_name"])
DatasetDir(bop) == Join(save_dir, bop.dataset_name)

\* zip(bop["images"], bop["image_urls"])
ImagePairs(bop) ==
    [k \in 1..(IF Len(bop.images) < Len(bop.image_urls)
               THEN Len(bop.images) ELSE Len(bop.image_urls)) |->
        <<bop.images[k], bop.image_urls[k]>>]

ImageLoopAlways(bop, k) ==
    IF k <= Len(ImagePairs(bop)) THEN At("img_dl", k) ELSE At("end", 0)

\* where the image loop is after pair k-1: pair k, or past the loop
ImageLoop(bop, k) ==
    IF args.download_images /\ k <= Len(ImagePairs(bop)) THEN At("img_dl", k) ELSE At("end", 0)

DownloadBaseThenModel(j) ==
    /\ pc[j].at = "base_dl"
    /\ Fetch(j, Manifest[j].base_url, save_dir, At("model_dl", 0))

DownloadBase(j) ==
    /\ pc[j].at = "base_dl"
    /\ Fetch(j, Manifest[j].base_url, save_dir, At("base_ex", 0))

ExtractBase(j) ==
    /\ pc[j].at = "base_ex"
    /\ Extract(j, Manifest[j].base, Join(save_dir, Manifest[j].base), save_dir,
               At("model_dl", 0))

DownloadModel(j) ==
    /\ pc[j].at = "model_dl"
    /\ Fetch(j, Manifest[j].model_url, save_dir, At("model_ex", 0))

ExtractModelFlat(j) ==
    /\ pc[j].at = "model_ex"
    /\ Extract(j, Manifest[j].model, Join(save_dir, Manifest[j].model),
               save_dir, ImageLoop(Manifest[j], 1))

ExtractModel(j) ==
    /\ pc[j].at = "model_ex"
    /\ Extract(j, Manifest[j].model, Join(save_dir, Manifest[j].model),
               DatasetDir(Manifest[j]), ImageLoop(Manifest[j], 1))

DownloadImage(j) ==
    /\ pc[j].at = "img_dl"
    /\ LET k == pc[j].i
       IN  Fetch(j, ImagePairs(Manifest[j])[k][2], DatasetDir(Manifest[j]),
                 IF args.extract_images THEN At("img_ex", k)
                 ELSE ImageLoop(Manifest[j], k + 1))

ExtractImage(j) ==
    /\ pc[j].at = "img_ex"
    /\ LET k == pc[j].i
           img == ImagePairs(Manifest[j])[k][1]
       IN  Extract(j, img, Join(DatasetDir(Manifest[j]), img), DatasetDir(Manifest[j]),
                   ImageLoop(Manifest[j], k + 1))

\* ------------------------------------------------------------- running again
\* every task of this run went through all its calls without a failure
Clean ==
    \A k \in 1..Len(futures) :
        exc[futures[k]] = "none" /\ failed[futures[k]] = "none"

\* the tool is started again with the same command line on the same save_dir
Rerun ==
    /\ mainpc = "done"
    /\ run < MaxRuns
    /\ run' = run + 1
    /\ fs1' = IF run = 1 THEN <<fs, dirs>> ELSE fs1
    /\ clean1' = IF run = 1 THEN Clean ELSE clean1
    /\ mainpc' = "filter"
    /\ bop_all' = <<>>
    /\ futures' = <<>>
    /\ pc' = NoTasks
    /\ sem' = 0
    /\ exc' = Nothing
    /\ printed' = {}
    /\ requested' = {}
    /\ trace' = [j \in Datasets |-> <<>>]
    /\ failed' = Nothing
    /\ starts' = [j \in Datasets |-> 0]
    /\ status' = -1
    /\ touched' = [j \in Datasets |-> {}]
    /\ UNCHANGED <<args, max_workers, bad, fs, dirs>>

Next ==
    \/ Filter
    \/ Submit
    \/ Wait
    \/ Shutdown
    \/ \E j \in Datasets : Start(j)
    \/ \E j \in Datasets : Acquire(j)
    \/ \E j \in Datasets : DownloadBase(j)
    \/ \E j \in Datasets : ExtractBase(j)
    \/ \E j \in Datasets : DownloadModel(j)
    \/ \E j \in Datasets : ExtractModel(j)
    \/ \E j \in Datasets : DownloadImage(j)
    \/ \E j \in Datasets : ExtractImage(j)

NextTwice == Next \/ Rerun

Spec == Init /\ [][Next]_vars

SpecPool == InitPool /\ [][Next]_vars

SpecTwice == InitTwice /\ [][NextTwice]_vars

\* A whitelist of no, of one or of two datasets of the manifest, every
\* --num_thread and pool size, images downloaded and extracted, archives kept
\* and sound.
InitFair ==
    Begin({Args(n, w, [remove_zip |-> FALSE, download_images |-> TRUE,
                       extract_images |-> TRUE]) :
              n \in 1..MaxNumThread,
              w \in {{"other"}, {Manifest[1].dataset_name},
                     {Manifest[1].dataset_name, Manifest[2].dataset_name}}},
          1..MaxWorkers, {<<0, "none">>})

\* Threads that keep being scheduled and calls that return: as long as main()
\* or some task can take a step, a step is taken.
FairSpec == InitFair /\ [][Next]_vars /\ WF_vars(Next)

\* ================================================================= claims
Submitted == {futures[k] : k \in 1..Len(futures)}

\* the calls download_all makes for dataset j when nothing fails
RECURSIVE ImageCalls(_, _)
ImageCalls(bop, k) ==
    IF k > Len(bop.images) THEN <<>>
    ELSE <<<<"download_file", bop.images[k]>>>>
         \o (IF args.extract_images THEN <<<<"extract_and_remove", bop.images[k]>>>> ELSE <<>>)
         \o ImageCalls(bop, k + 1)

FullPipeline(j) ==
    LET bop == Manifest[j]
    IN  <<<<"download_file", bop.base>>, <<"extract_and_remove", bop.base>>,
          <<"download_file", bop.model>>, <<"extract_and_remove", bop.model>>>>
        \o (IF args.download_images THEN ImageCalls(bop, 1) ELSE <<>>)

\* no call of task j failed
CleanTask(j) == failed[j] = "none" /\ exc[j] = "none"

\* the first call of task j, the fetch of the base archive, failed
BaseFetchFailed(j) == failed[j] # "none" /\ Len(trace[j]) = 1

\* C1: at any moment at most num_thread tasks are inside the body of
\* download_all (between acquiring and releasing the semaphore).
ConcurrencyBound == Cardinality(InBody) <= args.num_thread

\* C1 witness: the semaphore is exhausted and a further task, already on a
\* worker thread, is held back at `with sem`.
ConcurrencyBoundWitness ==
    /\ Cardinality(InBody) = args.num_thread
    /\ \E j \in Datasets : pc[j].at = "acquire"

\* No step is possible: no task is inside its body (there a call is always
\* possible), and neither main() nor a task outside its body can move.
Stuck ==
    /\ InBody = {}
    /\ ~ENABLED (Filter \/ Submit \/ Wait \/ Shutdown
                  \/ (\E j \in Datasets : Start(j)) \/ (\E j \in Datasets : Acquire(j)))

\* C2: isolation. The run never gets stuck before main() has returned (every
\* step makes progress, so it terminates), and once it has returned, every task
\* B none of whose calls failed has made all the calls of its pipeline, whatever
\* way the base fetch of another task A failed.
Isolation ==
    /\ Stuck => mainpc = "done"
    /\ mainpc = "done" =>
          \A a, b \in Submitted :
              (a # b /\ BaseFetchFailed(a) /\ CleanTask(b)) =>
                  (pc[b].at = "done" /\ trace[b] = FullPipeline(b))

\* C2 witness: A's base fetch raised URLError (an unreachable host), B went
\* through its whole pipeline, and main() has returned.
IsolationWitness ==
    /\ mainpc = "done"
    /\ \E a, b \in Submitted :
          /\ a # b
          /\ BaseFetchFailed(a) /\ failed[a] = "URLError"
          /\ CleanTask(b) /\ trace[b] = FullPipeline(b)

\* C4: all-complete barrier. The body of a task is started at most once, and
\* when main() is past wait(futures) every descriptor that passed the filter
\* has been submitted and every submitted task has started its body once and
\* has ended, whether by returning or by raising.
AllCompleteBarrier ==
    /\ \A j \in Datasets : starts[j] <= 1
    /\ mainpc \in {"shutdown", "done"} =>
          /\ futures = bop_all
          /\ \A j \in Submitted : pc[j].at = "done" /\ starts[j] = 1

\* C4 witness: main() has returned after a run in which one task raised and
\* a sibling was started and ran to its end.
AllCompleteBarrierWitness ==
    /\ mainpc = "done"
    /\ \E a, b \in Submitted :
          a # b /\ exc[a] # "none" /\ starts[b] = 1 /\ trace[b] = FullPipeline(b)

\* the dataset passes `if args.whitelist: ... in args.whitelist`
Wanted(j) == args.whitelist = {} \/ Manifest[j].dataset_name \in args.whitelist

\* the names under which dataset j's files and directories appear
OwnNames(j) ==
    {Manifest[j].dataset_name, Manifest[j].base, Manifest[j].model}
        \cup {Manifest[j].images[k] : k \in 1..Len(Manifest[j].images)}

\* the files and directories of dataset j that exist
Artifacts(j) ==
    {p \in DOMAIN fs \cup dirs : \E k \in 1..Len(p) : p[k] \in OwnNames(j)}

\* C7: whitelist filter. No descriptor is submitted twice; only descriptors
\* that pass the whitelist (all of them when none is given) are submitted, and
\* by the time main() waits all of those are; a descriptor that does not pass
\* gets no task, makes no call and has no file or directory.
WhitelistFilter ==
    /\ \A k, l \in 1..Len(futures) : k # l => futures[k] # futures[l]
    /\ \A j \in Submitted : Wanted(j)
    /\ mainpc \in {"shutdown", "done"} => Submitted = {j \in Datasets : Wanted(j)}
    /\ \A j \in Datasets :
          ~Wanted(j) => (pc[j].at = "none" /\ trace[j] = <<>> /\ Artifacts(j) = {})

\* C7 witness: with a whitelist naming one of two datasets, the run is over, the
\* listed dataset went through its pipeline and left files, the other did nothing.
WhitelistFilterWitness ==
    /\ mainpc = "done"
    /\ args.whitelist # {}
    /\ \E a, b \in Datasets :
          /\ Wanted(a) /\ trace[a] = FullPipeline(a) /\ Artifacts(a) # {}
          /\ ~Wanted(b)

\* C5: no exception leaves download_all: the future of no task ever holds one.
NoEscape == \A j \in Datasets : exc[j] = "none"

\* C6: when main() has returned, a failure line for a dataset has been printed
\* if and only if a fetch of that dataset's task failed. (The line the code
\* prints carries bop["base"]; it is taken here as the dataset's report.)
FailuresReported ==
    mainpc = "done" =>
        \A j \in Submitted :
            (failed[j] # "none") <=> (FailureLine(Manifest[j]) \in printed)

\* the destination of the last download_file call of task j
LastFetchPath(j) ==
    LET name == trace[j][Len(trace[j])][2]
    IN  IF name \in {Manifest[j].base, Manifest[j].model}
        THEN Join(save_dir, name)
        ELSE Join(DatasetDir(Manifest[j]), name)

\* C9: after a fetch that failed there is no file at its destination path.
NoFileAfterFailedFetch ==
    \A j \in Datasets : failed[j] # "none" => LastFetchPath(j) \notin DOMAIN fs

\* the archive the extract_and_remove call task j is about to make is given
ExtractTarget(j) ==
    CASE pc[j].at = "base_ex" -> Join(save_dir, Manifest[j].base)
      [] pc[j].at = "model_ex" -> Join(save_dir, Manifest[j].model)
      [] OTHER -> Join(DatasetDir(Manifest[j]), Manifest[j].images[pc[j].i])

\* task j makes an extract_and_remove call in this step and the call returns
ExtractReturns(j) ==
    /\ pc[j].at \in {"base_ex", "model_ex", "img_ex"}
    /\ trace'[j] # trace[j]
    /\ exc'[j] = "none"

\* C10: archive removal. Whenever an extract_and_remove call returns, the
\* archive is gone from its path if remove_zip is set and is still there if it
\* is not, however many members were skipped.
ArchiveRemoval ==
    [][\A j \in Datasets :
          ExtractReturns(j) => (args.remove_zip <=> ExtractTarget(j) \notin DOMAIN fs')]_vars

\* C10 witness: with remove_zip set and a member that raises BadZipFile, the
\* base archive has been extracted (its sound member is there) and removed.
ArchiveRemovalWitness ==
    /\ args.remove_zip
    /\ bad[2] = "BadZipFile"
    /\ \E j \in Datasets :
          /\ pc[j].at = "model_dl"
          /\ Join(save_dir, Manifest[j].base) \notin DOMAIN fs
          /\ \E p \in DOMAIN fs : fs[p][1] = "member" /\ fs[p][2] = Manifest[j].base

\* the URL and the directory of the download_file call task j is about to make
FetchUrl(j) ==
    CASE pc[j].at = "base_dl" -> Manifest[j].base_url
      [] pc[j].at = "model_dl" -> Manifest[j].model_url
      [] OTHER -> Manifest[j].image_urls[pc[j].i]

FetchDir(j) ==
    IF pc[j].at \in {"base_dl", "model_dl"} THEN save_dir ELSE DatasetDir(Manifest[j])

\* task j makes a download_file call in this step
FetchCalled(j) ==
    /\ pc[j].at \in {"base_dl", "model_dl", "img_dl"}
    /\ trace'[j] # trace[j]

\* C8: fetch skip-if-exists. A download_file call for which a file named by the
\* URL's last segment is already in the directory makes no request, changes no
\* file and no directory, and returns without an exception.
SkipIfExists ==
    [][\A j \in Datasets :
          (FetchCalled(j) /\ Join(FetchDir(j), FetchUrl(j)[Len(FetchUrl(j))]) \in DOMAIN fs)
              => /\ fs' = fs
                 /\ dirs' = dirs
                 /\ requested' = requested
                 /\ failed'[j] = failed[j]
                 /\ exc'[j] = "none"]_vars

\* C8 witness: in a second run the base archive was still there, the task has
\* called download_file for it and gone on, and no request has been made.
SkipIfExistsWitness ==
    /\ run = 2
    /\ requested = {}
    /\ \E j \in Datasets :
          /\ pc[j].at = "base_ex"
          /\ trace[j] = <<<<"download_file", Manifest[j].base>>>>
          /\ Join(save_dir, Manifest[j].base) \in DOMAIN fs

\* C3 as claimed: after a first run without any failure, a later run with the
\* same command line ends with the files and directories of the first run and
\* has made no request.
IdempotenceAsClaimed ==
    (run >= 2 /\ clean1 /\ mainpc = "done") =>
        (<<fs, dirs>> = fs1 /\ requested = {})

\* C3 as amended: after a first run without any failure, a later run with the
\* same command line (a) without remove_zip makes no request and ends with the
\* files and directories of the first run; (b) with remove_zip, if none of its
\* calls fails, has fetched the base and the model archive again and ends with
\* the files and directories of the first run.
Idempotence ==
    (run >= 2 /\ clean1 /\ mainpc = "done") =>
        /\ ~args.remove_zip => (<<fs, dirs>> = fs1 /\ requested = {})
        /\ (args.remove_zip /\ Clean) =>
              /\ <<fs, dirs>> = fs1
              /\ \A j \in Submitted :
                    {Manifest[j].base_url, Manifest[j].model_url} \subseteq requested

\* C3 witness: a second run with remove_zip, after a first run without failure,
\* has gone through the whole pipeline again and main() has returned.
IdempotenceWitness ==
    /\ run = 2 /\ clean1 /\ mainpc = "done"
    /\ args.remove_zip /\ Clean
    /\ \E j \in Submitted : trace[j] = FullPipeline(j) /\ Artifacts(j) # {}

\* the extract_and_remove calls task j has made
ExtractCalls(j) == {k \in 1..Len(trace[j]) : trace[j][k][1] = "extract_and_remove"}

\* C11: extraction resilience. Once a task has called extract_and_remove on
\* its base archive (in a first run always a complete zip), every sound member
\* of that archive is in save_dir, wherever the bad member sits and whatever
\* its defect, and the call has not ended the task with an exception.
ExtractionResilient ==
    \A j \in Datasets :
        Len(trace[j]) >= 2 =>
            /\ \A k \in 1..NumEntries :
                  LET m == Infolist(Manifest[j].base, bad)[k]
                  IN  m.kind = "ok" => (save_dir \o m.name) \in DOMAIN fs
            /\ ~(Len(trace[j]) = 2 /\ exc[j] # "none")

\* C13: a task whose base or model fetch failed has ended, has made no call
\* after that fetch, and has returned normally (its future holds no exception).
AbortOnFetchFailure ==
    \A j \in Datasets :
        (failed[j] # "none" /\ Len(trace[j]) <= 3) =>
            /\ pc[j].at = "done"
            /\ trace[j] \in {<<<<"download_file", Manifest[j].base>>>>,
                             <<<<"download_file", Manifest[j].base>>,
                               <<"extract_and_remove", Manifest[j].base>>,
                               <<"download_file", Manifest[j].model>>>>}
            /\ exc[j] = "none"

\* what has been printed other than the download failure lines
EntryEvents == printed \ {FailureLine(Manifest[j]) : j \in Datasets}

\* C17: as many failed-entry events have been emitted as members were skipped.
\* (In a first run every extract_and_remove call finds a complete zip, so with
\* a member that raises BadZipFile every call made has skipped one member.)
SkipsReported ==
    LET calls == {<<j, k>> \in Datasets \X (1..(4 + 2 * NumImages)) : k \in ExtractCalls(j)}
    IN  Cardinality(EntryEvents) = (IF bad[2] = "BadZipFile" THEN Cardinality(calls) ELSE 0)

\* the call task j makes next, by its position
NextCall(j) ==
    CASE pc[j].at = "base_dl" -> <<"download_file", Manifest[j].base>>
      [] pc[j].at = "base_ex" -> <<"extract_and_remove", Manifest[j].base>>
      [] pc[j].at = "model_dl" -> <<"download_file", Manifest[j].model>>
      [] pc[j].at = "model_ex" -> <<"extract_and_remove", Manifest[j].model>>
      [] pc[j].at = "img_dl" -> <<"download_file", Manifest[j].images[pc[j].i]>>
      [] OTHER -> <<"extract_and_remove", Manifest[j].images[pc[j].i]>>

ImageNames(j) == {Manifest[j].images[k] : k \in 1..Len(Manifest[j].images)}

\* the calls of the given function task j has made on image archives
ImageCallsMade(j, fn) ==
    {k \in 1..Len(trace[j]) : trace[j][k][1] = fn /\ trace[j][k][2] \in ImageNames(j)}

\* C15: image steps are gated by the flags. Without download_images no image
\* archive is fetched or extracted and none is on disk; without extract_images
\* none is extracted and no member of one is on disk; with download_images and
\* without extract_images a task that ended without failure has left every
\* image archive, complete, in save_dir/<dataset_name>/ (also under remove_zip).
ImageGating ==
    \A j \in Datasets :
        /\ ~args.download_images =>
              /\ ImageCallsMade(j, "download_file") = {}
              /\ ImageCallsMade(j, "extract_and_remove") = {}
              /\ \A n \in ImageNames(j) : Join(DatasetDir(Manifest[j]), n) \notin DOMAIN fs
        /\ ~args.extract_images =>
              /\ ImageCallsMade(j, "extract_and_remove") = {}
              /\ \A p \in DOMAIN fs : ~(fs[p][1] = "member" /\ fs[p][2] \in ImageNames(j))
        /\ (args.download_images /\ ~args.extract_images
                /\ pc[j].at = "done" /\ CleanTask(j)) =>
              \A n \in ImageNames(j) :
                  /\ Join(DatasetDir(Manifest[j]), n) \in DOMAIN fs
                  /\ fs[Join(DatasetDir(Manifest[j]), n)] = <<"zip", n>>

\* C15 witness: with download_images, remove_zip and no extract_images a task
\* has ended without failure; its image archive is on disk, fetched, not extracted.
ImageGatingWitness ==
    /\ args.download_images /\ ~args.extract_images /\ args.remove_zip
    /\ \E j \in Datasets :
          /\ pc[j].at = "done" /\ CleanTask(j)
          /\ ImageCallsMade(j, "download_file") # {}
          /\ Join(DatasetDir(Manifest[j]), Manifest[j].images[1]) \in DOMAIN fs

\* C18: permit conservation. From the creation of the semaphore on, the free
\* permits and the tasks inside their body add up to num_thread; so when every
\* task has ended, however it ended, all num_thread permits are free again.
PermitConservation ==
    mainpc # "filter" =>
        /\ sem >= 0
        /\ sem + Cardinality(InBody) = args.num_thread
        /\ mainpc = "done" => sem = args.num_thread

\* C18 witness: the run is over, one task left its body by an exception that
\* was not caught, another by the caught HTTPError, and all permits are free.
PermitConservationWitness ==
    /\ mainpc = "done"
    /\ sem = args.num_thread
    /\ \E a, b \in Submitted :
          /\ exc[a] # "none"
          /\ failed[b] = "HTTPError" /\ exc[b] = "none"

\* the fetch of an image archive by task j fails with HTTPError in this step
ImageFetchFails(j) ==
    /\ pc[j].at = "img_dl"
    /\ failed'[j] = "HTTPError"

Completion ==
    <>(/\ mainpc = "done"
       /\ futures = bop_all
       /\ \A j \in Submitted : pc[j].at = "done" /\ starts[j] = 1)

\* C19 witness: more tasks than permits and than worker threads: one task is in
\* its body holding the only permit while another waits in the executor's queue.
CompletionWitness ==
    /\ args.num_thread = 1 /\ max_workers = 1
    /\ sem = 0
    /\ \E a, b \in Submitted : a \in InBody /\ pc[b].at = "queued"

\* C12: whenever main() has returned, with every task at its end, the exit
\* status of the process is 0, whatever failed in the tasks: neither an
\* exception a task caught nor one stored in its future changes it.
ExitSuccess ==
    mainpc = "done" => status = 0 /\ AllDone

\* C12 witness: main() has returned after a run in which one task ended with an
\* exception in its future and another with a caught HTTPError.
ExitSuccessWitness ==
    /\ mainpc = "done"
    /\ status = 0
    /\ \E a, b \in Submitted :
          /\ exc[a] # "none"
          /\ failed[b] = "HTTPError" /\ FailureLine(Manifest[b]) \in printed

====
